---- MODULE Spec2Model ----
(***************************************************************************)
(* cress::Defer<Callable> (include/cress/defer.hpp) and the macro binding  *)
(* forms built on it, run by one thread of control on a stack of lexical   *)
(* scopes.  A scope holds its local objects in declaration order; leaving  *)
(* a scope (fall-through, return, exception unwind) destroys them last     *)
(* declared first, and destroying a Defer object runs ~Defer().            *)
(***************************************************************************)
EXTENDS Integers, Sequences, FiniteSets, TLC

VARIABLES
    stack,      \* live scopes, outermost first: [id, kind, objs]
    scopes,     \* every scope ever entered, by id: [kind, parent]
    guards,     \* every Defer object ever constructed, by id
    cvars,      \* every callable variable ever declared, by id
    log,        \* the shared sequence the actions append to: [g, act]
    mode,       \* what the thread of control is doing
    err,        \* the exception in flight ("none" when there is none)
    thrown,     \* the exceptions thrown by body code, in order
    caught,     \* the exceptions received by the caller's handlers, in order
    cause,      \* why the program terminated ("none" while it has not)
    nextAct,    \* the identifier the next written action body gets
    rejected,   \* the copy/move operations of statements the compiler rejected
    skipped     \* the guard declarations control never reached: [scope, act]

vars == <<stack, scopes, guards, cvars, log, mode, err, thrown, caught, cause,
          nextAct, rejected, skipped>>

\* ------------------------------------------------------------------ bounds
MaxDepth == 3
MaxScopes == 3
MaxGuards == 3
MaxVars == 1
MaxDefaults == 1
MaxAssigns == 1
MaxThrows == 1
MaxStmts == 3
MaxSkipped == 1

\* ------------------------------------------------------------- vocabulary
Kinds == {"closure", "functor", "fnptr", "stdfunction"}
VarKinds == {"closure", "stdfunction"}
Errors == <<"E1", "E2", "E3">>
CleanupErrors == {"cleanup_error", "bad_function_call"}
TransferOps == {"copy_ctor", "move_ctor", "copy_assign", "move_assign"}
Exiting == {"exit", "return", "unwind", "abort"}

\* A callable value: its type's kind, whether it has a target (a null function
\* pointer and an empty std::function have none), the body it runs, whether
\* that body throws, and whether its call operator is declared noexcept.
Callable(k, a, t, n) ==
    [kind |-> k, engaged |-> TRUE, act |-> a, throws |-> t, noexc |-> n]

NoTarget(k) ==
    [kind |-> k, engaged |-> FALSE, act |-> 0, throws |-> FALSE, noexc |-> FALSE]

\* `[&]()noexcept { block }` as written by the block-literal macros.
BlockLambda(a, t) == Callable("closure", a, t, TRUE)

\* `Callable()`: value-initialisation of a callable type.  A class type with a
\* default constructor runs its own call operator (body a); a function pointer
\* is null; a std::function is empty.  Closure types of [&] lambdas have no
\* default constructor.
ValueInit(k, a) ==
    IF k = "functor" THEN Callable(k, a, FALSE, FALSE) ELSE NoTarget(k)

DefaultConstructible == {"functor", "fnptr", "stdfunction"}

\* The states a callable may be left in after being the source of a move: a
\* std::function is left valid but unspecified, the other kinds are copied.
MovedFrom(c) ==
    IF c.kind = "stdfunction" /\ c.engaged THEN {c, NoTarget("stdfunction")} ELSE {c}

\* ---------------------------------------------------------------- helpers
Top == stack[Len(stack)]
Depth == Len(stack)
LiveIds == {stack[i].id : i \in 1..Len(stack)}
GuardIds == 1..Len(guards)
VarIds == 1..Len(cvars)

RECURSIVE SumWrites(_)
SumWrites(n) == IF n = 0 THEN 0 ELSE cvars[n].writes + SumWrites(n - 1)

\* the statements written so far: declarations (reached or not), assignments,
\* scope entries and rejected copies or moves
Stmts ==
    Len(guards) + Cardinality({v \in VarIds : cvars[v].user}) + SumWrites(Len(cvars))
      + (Len(scopes) - 1) + Cardinality(rejected) + Len(skipped)

\* the thread of control is in body code and the program has a next statement
Running == mode = "run" /\ Stmts < MaxStmts

RECURSIVE FnBase(_)
\* index in the stack of the innermost function body at or below index i
FnBase(i) == IF i <= 1 \/ stack[i].kind = "fn" THEN i ELSE FnBase(i - 1)

HasHandler == \E i \in 1..Len(stack) : stack[i].kind = "try"

\* callable variables the current point of the program can name
Visible(v) ==
    /\ cvars[v].alive
    /\ \E i \in FnBase(Len(stack))..Len(stack) : stack[i].id = cvars[v].scope

\* (mutation) a guard that belongs to the enclosing function body
HomeScope_Function == FnBase(Len(stack))

\* A guard is an automatic object of the block its declaration stands in: the
\* index in the stack of the scope whose exit destroys it.
HomeScope == Len(stack)

PushObj(o) == [stack EXCEPT ![HomeScope].objs = Append(@, o)]
PushObjs(os) == [stack EXCEPT ![HomeScope].objs = @ \o os]

\* (mutation) locals destroyed in declaration order
NextToDestroy_First(objs) == 1

\* Automatic objects are destroyed in the reverse order of their construction:
\* the index of the local of objs to destroy next.
NextToDestroy(objs) == Len(objs)

UserVars == {v \in VarIds : cvars[v].user}

\* whether some callable written so far has a body that throws
SomeThrows ==
    \/ \E v \in VarIds : cvars[v].val.throws
    \/ \E g \in GuardIds : guards[g].took.throws

\* --------------------------------------------------------------- the guard
\* struct Defer: the member `Callable m_callable;`, as the destructor reads it.
\* Where Callable is an object type the member is the guard's own object; where
\* Callable is a reference type (decltype of a variable declared as a const
\* reference) the member is that reference and reads the caller's object.
m_callable(g) ==
    IF guards[g].ref THEN cvars[guards[g].src].val ELSE guards[g].held

\* (mutation) the move constructor left to the compiler
Deleted_ExceptMoveCtor == TransferOps \ {"move_ctor"}

\* Defer(Defer const&), Defer(Defer&&), operator=(Defer const&),
\* operator=(Defer&&): all four are declared `= delete`
Deleted == TransferOps

\* `decltype(name)` is a reference type: the name given to the guard form is
\* the const reference declared for variable src (r), not the variable itself
IsReferenceType(src, r) == r /\ src \in VarIds /\ cvars[src].byref

\* The Defer object a constructor call creates in scope s: it holds the moved-in
\* callable (or, for a reference type, the reference std::move(callable) binds),
\* is Armed, and carries its own cleanup obligation.
NewGuard(c, s, form, src, dflt, r) ==
    [held |-> c, took |-> c, state |-> "Armed", outcome |-> "none", scope |-> s,
     form |-> form, src |-> src, dflt |-> dflt, ref |-> IsReferenceType(src, r),
     obligation |-> Len(guards) + 1]

\* explicit Defer(Callable callable) : m_callable(std::move(callable)) {}
DeferCtor(c, form, src, r) == NewGuard(c, Top.id, form, src, FALSE, r)

\* (mutation) a default constructor that installs a callable doing nothing
DeferDefaultCtor_NoOp(k, a) ==
    NewGuard(Callable(k, 0, FALSE, TRUE), Top.id, "default", 0, TRUE, FALSE)

\* Defer() : m_callable() {}
DeferDefaultCtor(k, a) ==
    NewGuard(ValueInit(k, a), Top.id, "default", 0, TRUE, FALSE)

Init ==
    /\ stack = <<[id |-> 1, kind |-> "fn", objs |-> <<>>]>>
    /\ scopes = <<[kind |-> "fn", parent |-> 0, left |-> "live"]>>
    /\ guards = <<>>
    /\ cvars = <<>>
    /\ log = <<>>
    /\ mode = "run"
    /\ err = "none"
    /\ thrown = <<>>
    /\ caught = <<>>
    /\ cause = "none"
    /\ nextAct = 1
    /\ rejected = {}
    /\ skipped = <<>>


\* ------------------------------------------------------- the caller's code
\* `{`: a nested block
EnterBlock ==
    /\ Running /\ Depth < MaxDepth /\ Len(scopes) < MaxScopes
    /\ stack' = Append(stack, [id |-> Len(scopes) + 1, kind |-> "block", objs |-> <<>>])
    /\ scopes' = Append(scopes, [kind |-> "block", parent |-> Top.id, left |-> "live"])
    /\ UNCHANGED <<guards, cvars, log, mode, err, thrown, caught, cause, nextAct, rejected, skipped>>

\* `try {`: a block whose exceptions the enclosing code handles
EnterTry ==
    /\ Running /\ Depth < MaxDepth /\ Len(scopes) < MaxScopes
    /\ stack' = Append(stack, [id |-> Len(scopes) + 1, kind |-> "try", objs |-> <<>>])
    /\ scopes' = Append(scopes, [kind |-> "try", parent |-> Top.id, left |-> "live"])
    /\ UNCHANGED <<guards, cvars, log, mode, err, thrown, caught, cause, nextAct, rejected, skipped>>

\* a call: the callee's function body
Call ==
    /\ Running /\ Depth < MaxDepth /\ Len(scopes) < MaxScopes
    /\ stack' = Append(stack, [id |-> Len(scopes) + 1, kind |-> "fn", objs |-> <<>>])
    /\ scopes' = Append(scopes, [kind |-> "fn", parent |-> Top.id, left |-> "live"])
    /\ UNCHANGED <<guards, cvars, log, mode, err, thrown, caught, cause, nextAct, rejected, skipped>>

\* `auto my_callable = ...;`: a callable variable with a newly written body,
\* whose call operator is not declared noexcept.  With r a const reference to
\* the variable is declared with it (`auto const& its_ref = my_callable;`, a
\* `std::function<void()> const&` parameter bound to it), and a guard form can
\* be given either name; a reference to a closure behaves as the closure, which
\* can be neither assigned nor emptied by a move.
DeclareCallable(k, t, r) ==
    /\ Running /\ Cardinality(UserVars) < MaxVars
    /\ t => ~SomeThrows /\ k = "closure"
    /\ r => k = "stdfunction"
    /\ cvars' = Append(cvars, [val |-> Callable(k, nextAct, t, FALSE), scope |-> Top.id,
                               alive |-> TRUE, user |-> TRUE, writes |-> 0,
                               byref |-> r])
    /\ stack' = PushObj([tag |-> "var", id |-> Len(cvars) + 1])
    /\ nextAct' = nextAct + 1
    /\ UNCHANGED <<scopes, guards, log, mode, err, thrown, caught, cause, rejected, skipped>>

\* `my_callable = other;` on a variable of an assignable type (closure types
\* are not assignable): the variable now runs a newly written body
AssignCallable(v) ==
    /\ Running /\ Visible(v) /\ cvars[v].user
    /\ cvars[v].val.kind \in {"fnptr", "stdfunction"}
    /\ cvars[v].writes < MaxAssigns
    /\ cvars' = [cvars EXCEPT ![v].val = Callable(@.kind, nextAct, FALSE, FALSE),
                              ![v].writes = @ + 1]
    /\ nextAct' = nextAct + 1
    /\ UNCHANGED <<stack, scopes, guards, log, mode, err, thrown, caught, cause, rejected, skipped>>

\* `cress::Defer<decltype(my_callable)> const my_defer(my_callable);`
\* the parameter is a copy of the variable (or, for a reference type, a
\* reference to its object), which keeps its value
DeferVariable(v, r) ==
    /\ Running /\ Len(guards) < MaxGuards /\ Visible(v)
    /\ r => cvars[v].byref
    /\ guards' = Append(guards, DeferCtor(cvars[v].val, "ctor", v, r))
    /\ stack' = PushObj([tag |-> "guard", id |-> Len(guards) + 1])
    /\ UNCHANGED <<scopes, cvars, log, mode, err, thrown, caught, cause, nextAct, rejected, skipped>>

\* `cress::Defer<T> my_defer;`
DeferDefault(k) ==
    /\ Running /\ Len(guards) < MaxGuards /\ k \in DefaultConstructible
    /\ Cardinality({g \in GuardIds : guards[g].dflt}) < MaxDefaults
    /\ IF k = "functor"
       THEN nextAct' = nextAct + 1
       ELSE UNCHANGED nextAct
    /\ guards' = Append(guards, DeferDefaultCtor(k, nextAct))
    /\ stack' = PushObj([tag |-> "guard", id |-> Len(guards) + 1])
    /\ UNCHANGED <<scopes, cvars, log, mode, err, thrown, caught, cause, rejected, skipped>>

\* ---------------------------------------------------------- binding forms
\* The locals `CRESS_DEFER_BEGIN(name) { block } CRESS_DEFER_END(name);`
\* declares: the lambda CRESS_deferfn_name, then the guard CRESS_defer_name
\* constructed from std::move(CRESS_deferfn_name).
BeginEndObjects == <<[tag |-> "var", id |-> Len(cvars) + 1],
                     [tag |-> "guard", id |-> Len(guards) + 1]>>

CRESS_DEFER_BEGIN_END(t) ==
    /\ Running /\ Len(guards) < MaxGuards
    /\ t => ~SomeThrows
    /\ \E left \in MovedFrom(BlockLambda(nextAct, t)) :
          cvars' = Append(cvars, [val |-> left, scope |-> Top.id,
                                  alive |-> TRUE, user |-> FALSE, writes |-> 0,
                                  byref |-> FALSE])
    /\ guards' = Append(guards, DeferCtor(BlockLambda(nextAct, t), "BEGIN_END", Len(cvars) + 1,
                                           FALSE))
    /\ stack' = PushObjs(BeginEndObjects)
    /\ nextAct' = nextAct + 1
    /\ UNCHANGED <<scopes, log, mode, err, thrown, caught, cause, rejected, skipped>>

\* `CRESS_DEFER_BLOCK({ block });` is CRESS_DEFER_BEGIN(lineN) block
\* CRESS_DEFER_END(lineN)
CRESS_DEFER_BLOCK(t) == CRESS_DEFER_BEGIN_END(t)

\* `CRESS_DEFER_CALLABLE_VARIABLE(my_callable);`: the guard is
\* `Defer<decltype(my_callable)>` constructed from std::move(my_callable), which
\* leaves the variable moved-from (a const reference is bound, nothing is moved)
CRESS_DEFER_CALLABLE_VARIABLE(v, r) ==
    /\ Running /\ Len(guards) < MaxGuards /\ Visible(v)
    /\ r => cvars[v].byref
    /\ guards' = Append(guards, DeferCtor(cvars[v].val, "CALLABLE_VARIABLE", v, r))
    /\ \E left \in (IF r THEN {cvars[v].val} ELSE MovedFrom(cvars[v].val)) :
          cvars' = [cvars EXCEPT ![v].val = left]
    /\ stack' = PushObj([tag |-> "guard", id |-> Len(guards) + 1])
    /\ UNCHANGED <<scopes, log, mode, err, thrown, caught, cause, nextAct, rejected, skipped>>

\* `CRESS_DEFER_BEGIN_CPP17 { block } CRESS_DEFER_END_CPP17;` is
\* `auto const CRESS_defer_lineN = ::cress::Defer([&]()noexcept { block });`.
\* The move constructor is deleted, so the form compiles only where the prvalue
\* initialises the variable itself (C++17): one guard, no temporary.
CRESS_DEFER_BEGIN_END_CPP17 ==
    /\ Running /\ Len(guards) < MaxGuards
    /\ guards' = Append(guards, DeferCtor(BlockLambda(nextAct, FALSE), "CPP17", 0, FALSE))
    /\ stack' = PushObj([tag |-> "guard", id |-> Len(guards) + 1])
    /\ nextAct' = nextAct + 1
    /\ UNCHANGED <<scopes, cvars, log, mode, err, thrown, caught, cause, rejected, skipped>>


\* ------------------------------------------------------------- destruction
\* What `m_callable()` can do for a callable c: run its body ("ok"); throw out
\* of the call ("throw", or "bad_function_call" for an empty std::function);
\* throw inside a call operator declared noexcept ("terminate"); and, for a null
\* function pointer, whose call is undefined, crash or be compiled away.
CallOutcomes(c) ==
    IF ~c.engaged
    THEN IF c.kind = "stdfunction" THEN {"bad_function_call"} ELSE {"crash", "elided"}
    ELSE IF c.throws
         THEN IF c.noexc THEN {"terminate"} ELSE {"throw"}
         ELSE {"ok"}

Escapes == {"throw", "bad_function_call"}

TerminateCause(o) ==
    CASE o = "crash" -> "undefined_behaviour"
      [] o = "terminate" -> "noexcept_callable"
      [] OTHER -> "noexcept_destructor"

\* what a destructor call records and appends for outcome o
Fire(g, o) ==
    /\ guards' = [guards EXCEPT ![g].state = "Fired", ![g].outcome = o]
    /\ log' = IF o = "ok" THEN Append(log, [g |-> g, act |-> m_callable(g).act])
                          ELSE log

\* (mutation) `~Defer() noexcept {}`: the destructor forgets the call
DeferDtor_NoCall(g) ==
    /\ guards' = [guards EXCEPT ![g].state = "Fired"]
    /\ UNCHANGED <<log, mode, cause, err>>

\* (mutation) the destructor calls m_callable twice
DeferDtor_Twice(g) ==
    \E o \in CallOutcomes(m_callable(g)) :
       /\ guards' = [guards EXCEPT ![g].state = "Fired", ![g].outcome = o]
       /\ log' = IF o = "ok"
                 THEN log \o <<[g |-> g, act |-> m_callable(g).act],
                                [g |-> g, act |-> m_callable(g).act]>>
                 ELSE log
       /\ IF o \in {"ok", "elided"}
          THEN UNCHANGED <<mode, cause>>
          ELSE mode' = "terminated" /\ cause' = TerminateCause(o)
       /\ UNCHANGED err

\* (mutation) the destructor skips the call while an exception is in flight
DeferDtor_SkipOnUnwind(g) ==
    IF err # "none"
    THEN /\ guards' = [guards EXCEPT ![g].state = "Fired"]
         /\ UNCHANGED <<log, mode, cause, err>>
    ELSE \E o \in CallOutcomes(m_callable(g)) :
            /\ Fire(g, o)
            /\ IF o \in {"ok", "elided"}
               THEN UNCHANGED <<mode, cause>>
               ELSE mode' = "terminated" /\ cause' = TerminateCause(o)
            /\ UNCHANGED err

\* (mutation) `~Defer() noexcept(false)`: an exception leaving m_callable()
\* leaves the destructor; with another exception in flight std::terminate is
\* called, otherwise the cleanup error propagates
DeferDtor_MayThrow(g) ==
    \E o \in CallOutcomes(m_callable(g)) :
       /\ Fire(g, o)
       /\ IF o \in {"ok", "elided"}
          THEN UNCHANGED <<mode, cause, err>>
          ELSE IF o \in Escapes /\ err = "none" /\ HasHandler
               THEN /\ mode' = "unwind"
                    /\ err' = IF o = "throw" THEN "cleanup_error" ELSE o
                    /\ UNCHANGED cause
               ELSE mode' = "terminated" /\ cause' = TerminateCause(o) /\ UNCHANGED err

\* ~Defer() noexcept { m_callable(); }
DeferDtor(g) ==
    \E o \in CallOutcomes(m_callable(g)) :
       /\ Fire(g, o)
       /\ IF o \in {"ok", "elided"}
          THEN UNCHANGED <<mode, cause>>
          ELSE mode' = "terminated" /\ cause' = TerminateCause(o)
       /\ UNCHANGED err

\* (mutation) destroying the callable variable runs its body
CallableDtor_Invokes(v) ==
    /\ cvars' = [cvars EXCEPT ![v].alive = FALSE]
    /\ log' = IF cvars[v].val.engaged
              THEN Append(log, [g |-> 0, act |-> cvars[v].val.act])
              ELSE log

\* the destructor of a callable variable (CRESS_deferfn_name, my_callable):
\* the variable dies, nothing is invoked
CallableDtor(v) ==
    /\ cvars' = [cvars EXCEPT ![v].alive = FALSE]
    /\ UNCHANGED log

\* one local of the scope being left is destroyed: the last declared one
DestroyLocal ==
    /\ mode \in Exiting /\ Len(stack) > 0 /\ Len(Top.objs) > 0
    /\ LET k == NextToDestroy(Top.objs)
           o == Top.objs[k] IN
         /\ stack' = [stack EXCEPT ![Len(stack)].objs =
                                   SubSeq(@, 1, k - 1) \o SubSeq(@, k + 1, Len(@))]
         /\ IF o.tag = "guard"
            THEN DeferDtor(o.id) /\ UNCHANGED cvars
            ELSE CallableDtor(o.id) /\ UNCHANGED <<guards, mode, err, cause>>
    /\ UNCHANGED <<scopes, thrown, caught, nextAct, rejected, skipped>>

Resume == IF Len(stack) = 1 THEN "done" ELSE "run"

\* the scope being left has no locals left: control moves on
PopScope ==
    /\ mode \in Exiting /\ Len(stack) > 0 /\ Len(Top.objs) = 0
    /\ stack' = SubSeq(stack, 1, Len(stack) - 1)
    /\ mode' = CASE mode = "exit" -> Resume
                 [] mode = "return" -> IF Top.kind = "fn" THEN Resume ELSE "return"
                 [] mode = "unwind" -> IF Top.kind = "try" THEN "handler" ELSE "unwind"
                 [] OTHER -> IF Len(stack) = 1 THEN "terminated" ELSE "abort"
    /\ cause' = IF mode = "abort" /\ Len(stack) = 1 THEN "uncaught" ELSE cause
    /\ scopes' = [scopes EXCEPT ![Top.id].left = mode]
    /\ UNCHANGED <<guards, cvars, log, err, thrown, caught, nextAct, rejected, skipped>>

\* `}`: control falls off the end of the innermost scope
FallThrough ==
    /\ mode = "run"
    /\ mode' = "exit"
    /\ UNCHANGED <<stack, scopes, guards, cvars, log, err, thrown, caught, cause, nextAct, rejected, skipped>>

\* (mutation) the declarations after the exit point are executed all the same
ExecutedAfterExit_All(later) == later

\* The guard declarations standing after a return or throw statement that
\* control still executes: none, so no constructor runs for them.
ExecutedAfterExit(later) == <<>>

\* the guard declarations written after the statement being executed: with d a
\* `CRESS_DEFER_BEGIN_CPP17 { block } CRESS_DEFER_END_CPP17;` with a new body
LaterDecls(d) == IF d THEN <<[scope |-> Top.id, act |-> nextAct]>> ELSE <<>>

\* control leaves the statement with the declarations `later` behind it
LeaveBefore(later) ==
    LET run == ExecutedAfterExit(later) IN
    /\ skipped' = skipped \o later
    /\ nextAct' = nextAct + Len(later)
    /\ guards' = guards \o [i \in 1..Len(run) |->
                     [DeferCtor(BlockLambda(run[i].act, FALSE), "CPP17", 0, FALSE)
                         EXCEPT !.obligation = Len(guards) + i]]
    /\ stack' = PushObjs([i \in 1..Len(run) |-> [tag |-> "guard", id |-> Len(guards) + i]])

\* `return;` before the end of the function, or (d) before a guard declaration
\* of the scope
Return(d) ==
    /\ mode = "run" /\ (Top.kind # "fn" \/ d)
    /\ d => (Len(skipped) < MaxSkipped /\ Stmts < MaxStmts)
    /\ mode' = "return"
    /\ LeaveBefore(LaterDecls(d))
    /\ UNCHANGED <<scopes, cvars, log, err, thrown, caught, cause, rejected>>

\* index in the stack of the innermost try block
InnermostTry ==
    CHOOSE i \in 1..Len(stack) :
        stack[i].kind = "try" /\ \A j \in (i + 1)..Len(stack) : stack[j].kind # "try"

\* (mutation) a throw that transfers control straight to the handler, dropping
\* the scopes in between without destroying their locals (a longjmp)
Throw_JumpToHandler(e, unwinds, d) ==
    /\ mode = "run" /\ Len(thrown) < MaxThrows
    /\ e = Errors[Len(thrown) + 1]
    /\ HasHandler /\ ~unwinds /\ ~d
    /\ err' = e
    /\ thrown' = Append(thrown, e)
    /\ mode' = "handler"
    /\ stack' = SubSeq(stack, 1, InnermostTry - 1)
    /\ scopes' = [s \in DOMAIN scopes |->
                    IF \E j \in InnermostTry..Len(stack) : stack[j].id = s
                    THEN [scopes[s] EXCEPT !.left = "unwind"]
                    ELSE scopes[s]]
    /\ UNCHANGED <<guards, cvars, log, caught, cause, nextAct, rejected, skipped>>

\* `throw e;` from body code.  With a handler on the stack the scopes up to its
\* try block are unwound; with none std::terminate is called, after unwinding
\* the stack or without (the implementation chooses).  With d a guard
\* declaration of the scope stands after the throw.
Throw(e, unwinds, d) ==
    /\ mode = "run" /\ Len(thrown) < MaxThrows
    /\ e = Errors[Len(thrown) + 1]
    /\ d => (Len(skipped) < MaxSkipped /\ Stmts < MaxStmts)
    /\ LeaveBefore(LaterDecls(d))
    /\ err' = e
    /\ thrown' = Append(thrown, e)
    /\ IF HasHandler
       THEN ~unwinds /\ mode' = "unwind" /\ UNCHANGED cause
       ELSE IF unwinds
            THEN mode' = "abort" /\ UNCHANGED cause
            ELSE mode' = "terminated" /\ cause' = "uncaught"
    /\ UNCHANGED <<scopes, cvars, log, caught, rejected>>

\* `catch (...) {`: the caller's handler receives the exception in flight
Handler ==
    /\ mode = "handler"
    /\ caught' = Append(caught, err)
    /\ err' = "none"
    /\ mode' = "run"
    /\ UNCHANGED <<stack, scopes, guards, cvars, log, thrown, cause, nextAct, rejected, skipped>>

\* A statement that copies or moves the live guard g (into a new guard for the
\* constructors, onto another live guard for the assignments).  A deleted
\* operation is rejected when the program is compiled: the statement is
\* diagnosed and is no part of the program that runs.
AttemptTransfer(op, g) ==
    /\ Running /\ op \notin rejected
    /\ guards[g].state = "Armed" /\ guards[g].scope \in LiveIds
    /\ IF op \in Deleted
       THEN /\ rejected' = rejected \cup {op}
            /\ UNCHANGED <<stack, scopes, guards, cvars, log, mode, err, thrown, caught,
                           cause, nextAct, skipped>>
       ELSE /\ IF op \in {"copy_ctor", "move_ctor"}
               THEN /\ Len(guards) < MaxGuards
                    /\ guards' = Append(guards, [guards[g] EXCEPT !.scope = Top.id])
                    /\ stack' = PushObj([tag |-> "guard", id |-> Len(guards) + 1])
               ELSE /\ \E h \in GuardIds \ {g} :
                          /\ guards[h].state = "Armed" /\ guards[h].scope \in LiveIds
                          /\ guards' = [guards EXCEPT
                                           ![h].held = guards[g].held,
                                           ![h].obligation = guards[g].obligation]
                    /\ UNCHANGED stack
            /\ UNCHANGED <<scopes, cvars, log, mode, err, thrown, caught, cause,
                           nextAct, rejected, skipped>>

Next ==
    \/ EnterBlock
    \/ EnterTry
    \/ Call
    \/ \E k \in VarKinds, t \in BOOLEAN, r \in BOOLEAN : DeclareCallable(k, t, r)
    \/ \E v \in VarIds : AssignCallable(v)
    \/ \E v \in VarIds, r \in BOOLEAN : DeferVariable(v, r)
    \/ \E k \in Kinds : DeferDefault(k)
    \/ \E t \in BOOLEAN : CRESS_DEFER_BEGIN_END(t)
    \/ \E t \in BOOLEAN : CRESS_DEFER_BLOCK(t)
    \/ \E v \in VarIds, r \in BOOLEAN : CRESS_DEFER_CALLABLE_VARIABLE(v, r)
    \/ CRESS_DEFER_BEGIN_END_CPP17
    \/ \E op \in TransferOps, g \in GuardIds : AttemptTransfer(op, g)
    \/ FallThrough
    \/ \E d \in BOOLEAN : Return(d)
    \/ \E e \in {Errors[i] : i \in 1..Len(Errors)}, u \in BOOLEAN, d \in BOOLEAN :
          Throw(e, u, d)
    \/ DestroyLocal
    \/ PopScope
    \/ Handler

Spec == Init /\ [][Next]_vars


\* ------------------------------------------------------------- properties
Ended(s) == s \notin LiveIds
Entries(g) == {i \in 1..Len(log) : log[i].g = g}
Count(g) == Cardinality(Entries(g))
Pos(g) == CHOOSE i \in Entries(g) : TRUE
BodyCount(a) == Cardinality({i \in 1..Len(log) : log[i].act = a})
Holders(a) == {g \in GuardIds : guards[g].took.engaged /\ guards[g].took.act = a}
\* the guards that ran body a through a reference to a caller's variable
Aliases(a) ==
    {h \in GuardIds : guards[h].ref /\ \E i \in Entries(h) : log[i].act = a}
HowLeft(g) == scopes[guards[g].scope].left
Fired(g) == guards[g].state = "Fired"
Armed(g) == guards[g].state = "Armed"
\* the guard's Callable is an object type: the member is the guard's own object
ByValue(g) == ~guards[g].ref

\* a guard constructed with an action that runs to completion and counts
Counting(g) ==
    /\ ~guards[g].dflt
    /\ guards[g].took.engaged
    /\ ~guards[g].took.throws

RECURSIVE IsAncestor(_, _)
\* scope a encloses scope s
IsAncestor(a, s) ==
    /\ s # 0
    /\ scopes[s].parent # 0
    /\ (scopes[s].parent = a \/ IsAncestor(a, scopes[s].parent))

Reverse(q) == [i \in 1..Len(q) |-> q[Len(q) + 1 - i]]

\* the guards declared in scope s, in declaration order
Decl(s) ==
    LET InS(g) == guards[g].scope = s
    IN  SelectSeq([g \in 1..Len(guards) |-> g], InS)

\* the guards of scope s whose actions ran, in the order they ran
ScopeLog(s) ==
    LET OfS(e) == e.g \in GuardIds /\ guards[e.g].scope = s
        sel == SelectSeq(log, OfS)
    IN  [i \in 1..Len(sel) |-> sel[i].g]

\* the guard object g is a local of a live scope
InScope(g) ==
    \E i \in 1..Len(stack) : \E j \in 1..Len(stack[i].objs) :
        stack[i].objs[j] = [tag |-> "guard", id |-> g]

\* C1: once the scope of a guard constructed with a counting action has ended,
\* by fall-through, return or unwind, the guard has invoked its action exactly
\* once; for a guard that owns its action the body run is the one it was
\* constructed with, and that action's counter is 1 when no other guard was
\* given the action or ran it through a reference to the variable holding it.
C1_ExactlyOnce ==
    \A g \in GuardIds :
        (Counting(g) /\ Ended(guards[g].scope)) =>
            /\ Count(g) = 1
            /\ ByValue(g) =>
                  /\ log[Pos(g)].act = guards[g].took.act
                  /\ (Holders(guards[g].took.act) \cup Aliases(guards[g].took.act) = {g}
                        => BodyCount(guards[g].took.act) = 1)

C1_Witness ==
    \E g \in GuardIds :
        /\ Counting(g) /\ Ended(guards[g].scope)
        /\ HowLeft(g) = "return" /\ scopes[guards[g].scope].kind = "block"
        /\ Count(g) = 1

\* C2: sibling guards of one scope fire in the reverse of their declaration
\* order: a guard has fired only if every guard declared after it in the scope
\* has, its action ran after theirs, and a scope of counting guards that has
\* ended leaves exactly the reversed declaration sequence ([G3, G2, G1]).
C2_ReverseOrder ==
    /\ \A g, h \in GuardIds :
          (guards[g].scope = guards[h].scope /\ g < h) =>
              /\ Fired(g) => Fired(h)
              /\ (Entries(g) # {} /\ Entries(h) # {}) => Pos(h) < Pos(g)
    /\ \A s \in 1..Len(scopes) :
          (Ended(s) /\ \A g \in GuardIds : guards[g].scope = s => Counting(g)) =>
              ScopeLog(s) = Reverse(Decl(s))

C2_Witness ==
    \E s \in 1..Len(scopes) :
        /\ Ended(s)
        /\ Len(Decl(s)) = 3
        /\ \A g \in GuardIds : guards[g].scope = s => Counting(g)
        /\ ScopeLog(s) = Reverse(Decl(s))

C4_UnwindSafety ==
    /\ Len(caught) <= Len(thrown)
    /\ \A i \in 1..Len(caught) : caught[i] = thrown[i]
    /\ mode \in {"unwind", "handler"} => err = thrown[Len(thrown)]
    /\ \A g \in GuardIds :
          (Counting(g) /\ Ended(guards[g].scope) /\ HowLeft(g) = "unwind") =>
              Count(g) = 1

C4_Witness ==
    /\ caught # <<>>
    /\ caught[Len(caught)] = thrown[Len(caught)]
    /\ \E g \in GuardIds :
          Counting(g) /\ Ended(guards[g].scope) /\ HowLeft(g) = "unwind" /\ Count(g) = 1


\* C5 as stated: a default-constructed guard invokes a no-op action, so its
\* firing has no observable effect whatever its action type: nothing runs and
\* the program is not terminated by it.
C5_DefaultIsNoOp ==
    \A g \in GuardIds :
        (guards[g].dflt /\ Fired(g)) =>
            /\ Count(g) = 0
            /\ guards[g].outcome \notin {"bad_function_call", "throw", "terminate", "crash"}

\* C5 as amended: a default-constructed guard holds the value-initialised
\* callable of its type and its firing is one call of that value: the body of
\* a default-constructible functor type runs once, an empty std::function
\* throws bad_function_call and the program is terminated (the call of a null
\* function pointer is undefined and nothing is stated of it).
C5_DefaultRunsValueInit ==
    \A g \in GuardIds :
        guards[g].dflt =>
            LET c == m_callable(g) IN
            /\ c.kind \in DefaultConstructible
            /\ c.engaged <=> c.kind = "functor"
            /\ c.engaged => c.act >= 1
            /\ (Fired(g) /\ c.kind = "functor") =>
                  /\ guards[g].outcome = "ok"
                  /\ Count(g) = 1
                  /\ log[Pos(g)].act = c.act
            /\ (Fired(g) /\ c.kind = "stdfunction") =>
                  /\ guards[g].outcome = "bad_function_call"
                  /\ Count(g) = 0
                  /\ mode = "terminated"

C5_Witness ==
    \E g \in GuardIds :
        /\ guards[g].dflt /\ Fired(g)
        /\ m_callable(g).kind = "stdfunction"
        /\ mode = "terminated" /\ cause = "noexcept_destructor"

\* C6 (in every state): a guard is Armed or Fired; it is Armed exactly while it
\* is a local of a live scope, and its action has not run while it is Armed; a
\* Fired guard's scope has ended or is being left; the action has run at most
\* once.
C6_StateInvariant ==
    \A g \in GuardIds :
        /\ guards[g].state \in {"Armed", "Fired"}
        /\ Armed(g) <=> InScope(g)
        /\ Armed(g) => (Count(g) = 0 /\ guards[g].outcome = "none")
        /\ Fired(g) => (Ended(guards[g].scope) \/ mode \in Exiting \cup {"terminated"})
        /\ Count(g) <= 1

\* C6 (in every step): a Fired guard stays Fired, a guard leaves the Armed state
\* only by firing, and no guard is forgotten.
C6_Step ==
    /\ Len(guards') >= Len(guards)
    /\ \A g \in GuardIds :
          /\ Fired(g) => guards'[g].state = "Fired"
          /\ (Armed(g) /\ guards'[g].state # "Armed") => guards'[g].state = "Fired"
          /\ Fired(g) => Cardinality({i \in 1..Len(log') : log'[i].g = g}) = Count(g)

\* C6: a guard has the two states Armed and Fired, is Armed until its scope
\* ends, moves to Fired once and irreversibly, has its action invoked at most
\* once, and nothing cancels or disarms it.
C6_TwoStates == [](C6_StateInvariant) /\ [][C6_Step]_vars

C6_Witness ==
    \E g, h \in GuardIds :
        /\ Fired(g) /\ Count(g) = 1
        /\ Armed(h) /\ InScope(h)
        /\ guards[g].scope = guards[h].scope

\* C7: an error raised by a cleanup action never becomes the exception in
\* flight and never reaches a handler: the program is terminated, with the
\* exception that was in flight (if any) still the one that was thrown.
C7_CleanupErrorFatal ==
    /\ err \notin CleanupErrors
    /\ \A i \in 1..Len(caught) : caught[i] \notin CleanupErrors
    /\ \A g \in GuardIds :
          guards[g].outcome \in Escapes \cup {"terminate"} =>
              /\ mode = "terminated"
              /\ cause \in {"noexcept_destructor", "noexcept_callable"}
              /\ err \in {"none"} \cup {thrown[i] : i \in 1..Len(thrown)}
              /\ Len(caught) < Len(thrown) \/ err = "none"

C7_Witness ==
    \E g \in GuardIds :
        /\ guards[g].outcome = "throw"
        /\ err # "none" /\ err = thrown[Len(thrown)]
        /\ mode = "terminated"

\* C8: the four copy and move operations are rejected, and every cleanup
\* obligation is held by exactly one guard, the one it was registered with: no
\* two guards share an obligation, no guard's obligation changes, no obligation
\* is invoked twice and none is skipped when its scope ends.
C8_SingleOwner ==
    /\ rejected \subseteq TransferOps
    /\ \A g, h \in GuardIds : g # h => guards[g].obligation # guards[h].obligation
    /\ \A g \in GuardIds :
          /\ guards[g].obligation = g
          /\ Count(g) <= 1
          /\ Ended(guards[g].scope) => Fired(g)

C8_Witness ==
    /\ "move_ctor" \in rejected
    /\ \E g \in GuardIds : guards[g].form = "CPP17" /\ Fired(g) /\ Count(g) = 1

MacroForms == {"BEGIN_END", "CALLABLE_VARIABLE", "CPP17"}

\* C9: a guard bound by a macro form behaves as a guard constructed directly
\* with the same action at that place: it is a local of the scope the form
\* stands in, runs the block or callable exactly once when that scope ends, in
\* its place of the reverse declaration order among guards of every form, and
\* nothing runs when the intermediate callable variable is destroyed.
C9_FormsAreGuards ==
    /\ \A i \in 1..Len(log) : log[i].g \in GuardIds
    /\ \A g \in GuardIds :
          guards[g].form \in MacroForms =>
              /\ Armed(g) => \E i \in 1..Len(stack) :
                    /\ stack[i].id = guards[g].scope
                    /\ \E j \in 1..Len(stack[i].objs) :
                          stack[i].objs[j] = [tag |-> "guard", id |-> g]
              /\ (Ended(guards[g].scope) /\ Counting(g)) =>
                    /\ Count(g) = 1
                    /\ ByValue(g) => log[Pos(g)].act = guards[g].took.act
              /\ \A h \in GuardIds :
                    (guards[h].scope = guards[g].scope /\ h # g
                       /\ Entries(g) # {} /\ Entries(h) # {}) =>
                          (Pos(h) < Pos(g) <=> g < h)
              /\ guards[g].form = "BEGIN_END" =>
                    /\ cvars[guards[g].src].scope = guards[g].scope
                    /\ ~cvars[guards[g].src].alive => Fired(g)

C9_Witness ==
    \E g, h \in GuardIds :
        /\ guards[g].form = "BEGIN_END" /\ guards[h].form \notin {"BEGIN_END", "default"}
        /\ guards[g].scope = guards[h].scope /\ g < h
        /\ ~cvars[guards[g].src].alive
        /\ Count(g) = 1 /\ Count(h) = 1 /\ Pos(h) < Pos(g)

\* C10 as stated: the action a guard invokes is the value it took at
\* construction: the member never differs from that value, whatever is later
\* done to the variable the value came from, and what the destructor ran is
\* that value's body.
C10_HeldIsTaken ==
    \A g \in GuardIds :
        /\ m_callable(g) = guards[g].took
        /\ \A i \in Entries(g) : log[i].act = guards[g].took.act

\* C10 for the guards whose Callable is an object type
C10_OwnedIsTaken ==
    \A g \in GuardIds :
        ByValue(g) =>
            /\ m_callable(g) = guards[g].took
            /\ \A i \in Entries(g) : log[i].act = guards[g].took.act

\* a guard over a const-reference variable ran the body assigned to the
\* variable's object after the guard was constructed
C10_Witness ==
    \E g \in GuardIds :
        /\ guards[g].ref /\ cvars[guards[g].src].writes > 0
        /\ guards[g].outcome = "ok"
        /\ log[Pos(g)].act # guards[g].took.act

\* a guard that owns its callable ran the body it took, after the variable the
\* value came from was assigned another
C10_OwnedWitness ==
    \E g \in GuardIds :
        /\ ByValue(g)
        /\ guards[g].src # 0 /\ cvars[guards[g].src].user
        /\ cvars[guards[g].src].val # guards[g].took
        /\ cvars[guards[g].src].writes > 0
        /\ guards[g].outcome = "ok"
        /\ log[Pos(g)].act = guards[g].took.act

\* a step that constructs a guard, or in which guard h fires
Constructs == Len(guards') > Len(guards)
Fires(h) == Armed(h) /\ guards'[h].state = "Fired"

\* guard g keeps its state and the action its member designates
Untouched(g) ==
    /\ guards'[g].state = guards[g].state
    /\ m_callable(g)' = m_callable(g)

\* C11 as stated: guards share no mutable state: a step that constructs a
\* guard leaves the state and the held action of every guard that existed
\* unchanged, and a step in which a guard fires leaves those of every other
\* guard unchanged.
C11_NoSharedState ==
    [][\A g \in GuardIds :
          /\ Constructs => Untouched(g)
          /\ \A h \in GuardIds \ {g} : Fires(h) => Untouched(g)]_vars

\* C11 for the guards whose Callable is an object type
C11_OwnedUntouched ==
    [][\A g \in GuardIds :
          ByValue(g) =>
              /\ Constructs => Untouched(g)
              /\ \A h \in GuardIds \ {g} : Fires(h) => Untouched(g)]_vars

\* a guard over the const reference to a variable designates an empty
\* std::function that nothing was assigned to: constructing a later guard from
\* the variable itself moved its value away
C11_Witness ==
    \E g, h \in GuardIds :
        /\ g < h
        /\ guards[g].ref /\ ByValue(h) /\ guards[h].src = guards[g].src
        /\ guards[g].took.engaged /\ ~m_callable(g).engaged
        /\ cvars[guards[g].src].writes = 0

\* the scopes a guard declaration was left unreached in
SkippedScopes == {skipped[i].scope : i \in 1..Len(skipped)}

\* C12: a guard whose declaration stands after the return or throw that left
\* its scope is never constructed and its block never runs; once the scope has
\* ended, it was left by that early exit, every guard constructed in it has
\* fired, each counting one exactly once, and they ran in the reverse of their
\* declaration order.
C12_UnreachedNeverFires ==
    /\ \A i \in 1..Len(skipped) :
          /\ BodyCount(skipped[i].act) = 0
          /\ Holders(skipped[i].act) = {}
          /\ \A v \in VarIds : cvars[v].val.act # skipped[i].act
    /\ \A s \in SkippedScopes :
          Ended(s) =>
              /\ scopes[s].left \in {"return", "unwind", "abort"}
              /\ \A g \in GuardIds :
                    guards[g].scope = s =>
                        /\ Fired(g)
                        /\ Count(g) <= 1
                        /\ Counting(g) => Count(g) = 1
              /\ (\A g \in GuardIds : guards[g].scope = s => Counting(g)) =>
                    ScopeLog(s) = Reverse(Decl(s))

C12_Witness ==
    \E s \in SkippedScopes :
        /\ Ended(s)
        /\ scopes[s].left = "return"
        /\ Len(Decl(s)) = 2
        /\ \A g \in GuardIds : guards[g].scope = s => Counting(g)
        /\ ScopeLog(s) = Reverse(Decl(s))

\* C13: when the caller's handler for an error begins to run, the error is the
\* one thrown and no handler has received it yet; every scope entered inside
\* the try block has ended, every guard of an ended scope has fired, a counting
\* one having completed its action exactly once, and a guard still Armed
\* belongs to a scope that encloses the handler.  While the unwinding is under
\* way the handler has not begun.
C13_FiredBeforeHandler ==
    /\ mode = "unwind" => Len(caught) < Len(thrown)
    /\ mode = "handler" =>
          /\ Len(caught) < Len(thrown)
          /\ err = thrown[Len(thrown)]
          /\ \E t \in 1..Len(scopes) :
                /\ scopes[t].kind = "try" /\ scopes[t].left = "unwind"
                /\ scopes[t].parent = Top.id
          /\ \A s \in 1..Len(scopes) :
                (scopes[s].left = "unwind" \/ Ended(s)) =>
                    /\ Ended(s)
                    /\ \A g \in GuardIds :
                          guards[g].scope = s =>
                              /\ Fired(g) /\ ~InScope(g)
                              /\ guards[g].outcome \in {"ok", "elided"}
                              /\ Counting(g) => Count(g) = 1
          /\ \A g \in GuardIds : Armed(g) => guards[g].scope \in LiveIds

C13_Witness ==
    /\ mode = "handler"
    /\ \E g \in GuardIds :
          /\ scopes[guards[g].scope].kind = "block"
          /\ scopes[scopes[guards[g].scope].parent].kind = "try"
          /\ HowLeft(g) = "unwind"
          /\ Counting(g) /\ Count(g) = 1

====
